---- MODULE Spec2Model ----
(***************************************************************************)
(* Model of the SMTP listener of inbucket (pkg/server/smtp/listener.go):   *)
(* NewServer, Server.Start, Server.serve, Server.Drain and Server.Notify.  *)
(*                                                                         *)
(* Three goroutines take steps: the caller of Start (startPc), the accept  *)
(* loop serve (servePc) and the caller of Drain (drainPc).  Session        *)
(* handlers, the context's cancellation, the network and the reader of     *)
(* the Notify channel are the environment.                                 *)
(* Durations are counted in milliseconds (time.Duration counts int64       *)
(* nanoseconds; no value of the model comes near 2^63).                    *)
(***************************************************************************)
EXTENDS Integers, Sequences, FiniteSets

\* Bounds of the model.
MaxSessions == 3      \* connections accepted in one run (full lifecycle)
MaxFails == 2         \* accept timeouts in one run (full lifecycle)
MaxLoopSessions == 2  \* connections accepted in one run (accept loop alone)
MaxLoopFails == 11    \* accept timeouts in one run (accept loop alone)
MaxLiveSessions == 2  \* connections accepted in one run (fair scheduling)
MaxLiveFails == 1     \* accept timeouts in one run (fair scheduling)

\* Program constants (milliseconds).
InitialDelay == 5     \* 5 * time.Millisecond
MaxDelay == 1000      \* 1 * time.Second
NotifyCap == 1        \* make(chan error, 1)

VARIABLES
    smtpConfig,        \* the configuration handed to NewServer
    certLoads,         \* whether tls.LoadX509KeyPair succeeds on it
    config,            \* Server.config: [TLSEnabled, ForceTLS]
    tlsConfig,         \* Server.tlsConfig.Certificates: "none", "loaded", "empty"
    listener,          \* Server.listener: [kind: "none"|"plain"|"tls", state: "none"|"open"|"closed"]
    wg,                \* Server.wg: the WaitGroup's counter
    notify,            \* Server.notify: [buf: Seq(error), closed: BOOLEAN]
    ctxDone,           \* whether ctx.Done() is closed
    startPc,           \* position of the goroutine that calls Start
    servePc,           \* position of the serve goroutine
    drainPc,           \* position of the goroutine that calls Drain
    tempDelay,         \* serve's local tempDelay
    sessionID,         \* serve's loop variable sessionID
    acceptErr,         \* the error serve holds after a failed Accept
    expConnectsTotal,  \* the expvar counter of accepted connections
    readyCalls,        \* how many times readyFunc has been invoked
    dispatched,        \* the session ids handed to startSession, in order
    active,            \* the session ids whose handler has not returned
    sent,              \* the errors ever sent on notify, in order
    received,          \* the errors the supervisor has read from Notify()
    consecFails,       \* accept timeouts since the last successful accept
    totalFails,        \* accept timeouts since serve began
    lateDispatch,      \* sessions dispatched while the listener was closed
    drainEntry,        \* the WaitGroup's counter when Drain was called (-1: not called)
    drainAfterCancel,  \* whether ctx.Done() was closed when Drain was called
    decrements         \* how many handlers have returned and counted themselves out

vars == <<smtpConfig, certLoads, config, tlsConfig, listener, wg, notify, ctxDone,
          startPc, servePc, drainPc, tempDelay, sessionID, acceptErr,
          expConnectsTotal, readyCalls, dispatched, active, sent, received,
          consecFails, totalFails, lateDispatch, drainEntry, drainAfterCancel,
          decrements>>

cfgVars == <<smtpConfig, certLoads, config, tlsConfig>>
startVars == <<startPc, readyCalls>>
loopVars == <<servePc, tempDelay, sessionID, acceptErr, consecFails, totalFails>>
sessVars == <<wg, expConnectsTotal, dispatched, active, lateDispatch, decrements>>
notifyVars == <<notify, sent, received>>
drainVars == <<drainPc, drainEntry, drainAfterCancel>>

NoConfig == [TLSEnabled |-> FALSE, ForceTLS |-> FALSE]
NoListener == [kind |-> "none", state |-> "none"]

(***************************************************************************)
(* Channel operations on notify (a buffered chan error of capacity 1).     *)
(***************************************************************************)
\* A send proceeds only on an open channel with a free slot.
CanSend(ch) == ~ch.closed /\ Len(ch.buf) < NotifyCap

ChanSend(ch, err) == [ch EXCEPT !.buf = Append(@, err)]

ChanClose(ch) == [ch EXCEPT !.closed = TRUE]

\* Faulty variant of NotifyFatal: the error is sent and the channel left open.
NotifyFatalNoClose(err) ==
    /\ CanSend(notify)
    /\ notify' = ChanSend(notify, err)
    /\ sent' = Append(sent, err)
    /\ UNCHANGED received

\* s.notify <- err; close(s.notify)
NotifyFatal(err) ==
    /\ CanSend(notify)
    /\ notify' = ChanClose(ChanSend(notify, err))
    /\ sent' = Append(sent, err)
    /\ UNCHANGED received

(***************************************************************************)
(* The state before NewServer is called: the caller holds a configuration. *)
(***************************************************************************)
Init ==
    /\ smtpConfig \in [TLSEnabled : BOOLEAN, ForceTLS : BOOLEAN]
    /\ certLoads \in BOOLEAN
    /\ (~smtpConfig.TLSEnabled => certLoads)
    /\ config = NoConfig
    /\ tlsConfig = "none"
    /\ listener = NoListener
    /\ wg = 0
    /\ notify = [buf |-> <<>>, closed |-> FALSE]
    /\ ctxDone = FALSE
    /\ startPc = "new"
    /\ servePc = "notstarted"
    /\ drainPc = "idle"
    /\ tempDelay = 0
    /\ sessionID = 1
    /\ acceptErr = "nil"
    /\ expConnectsTotal = 0
    /\ readyCalls = 0
    /\ dispatched = <<>>
    /\ active = {}
    /\ sent = <<>>
    /\ received = <<>>
    /\ consecFails = 0
    /\ totalFails = 0
    /\ lateDispatch = 0
    /\ drainEntry = -1
    /\ drainAfterCancel = FALSE
    /\ decrements = 0

(***************************************************************************)
(* NewServer                                                               *)
(***************************************************************************)
\* Faulty variant of LoadedConfig: a failed load clears ForceTLS, not TLSEnabled.
LoadedConfigClearsForceTLS(cfg, loads) ==
    IF cfg.TLSEnabled /\ ~loads
    THEN [cfg EXCEPT !.ForceTLS = FALSE]
    ELSE cfg

\* The configuration NewServer stores after trying to load the key pair.
LoadedConfig(cfg, loads) ==
    IF cfg.TLSEnabled /\ ~loads
    THEN [cfg EXCEPT !.TLSEnabled = FALSE]
    ELSE cfg

\* tlsConfig.Certificates after NewServer.
LoadedCert(cfg, loads) ==
    IF ~cfg.TLSEnabled THEN "none"
    ELSE IF loads THEN "loaded" ELSE "empty"

NewServer ==
    /\ startPc = "new"
    /\ config' = LoadedConfig(smtpConfig, certLoads)
    /\ tlsConfig' = LoadedCert(smtpConfig, certLoads)
    /\ startPc' = "init"
    /\ UNCHANGED <<smtpConfig, certLoads, listener, ctxDone, servePc, drainVars,
                   tempDelay, sessionID, acceptErr, readyCalls, consecFails,
                   totalFails, sessVars, notifyVars>>

(***************************************************************************)
(* Server.Start                                                            *)
(***************************************************************************)
\* The listener Start asks for: tls.Listen under ForceTLS, else net.ListenTCP.
ListenerKind(cfg) == IF cfg.ForceTLS THEN "tls" ELSE "plain"

\* tls.Listen refuses a tls.Config whose Certificates slice is empty; a slice
\* holding one zero-valued certificate (a failed load) passes that test.
CanListen(cfg, cert) == ~(cfg.ForceTLS /\ cert = "none")

\* net.ResolveTCPAddr fails: s.notify <- err; close(s.notify); return
StartResolveFail ==
    /\ startPc = "init"
    /\ NotifyFatal("resolve")
    /\ startPc' = "failed"
    /\ UNCHANGED <<cfgVars, listener, ctxDone, drainVars, readyCalls, loopVars, sessVars>>

StartResolveOK ==
    /\ startPc = "init"
    /\ startPc' = "bind"
    /\ UNCHANGED <<cfgVars, listener, ctxDone, drainVars, readyCalls, loopVars, sessVars,
                   notifyVars>>

\* Faulty variant of StartBindFail: the error is reported and the return is
\* missing, so Start goes on to launch serve.
StartBindFailNoReturn ==
    /\ startPc = "bind"
    /\ NotifyFatal("bind")
    /\ startPc' = "launch"
    /\ UNCHANGED <<cfgVars, listener, ctxDone, drainVars, readyCalls, loopVars, sessVars>>

\* tls.Listen / net.ListenTCP fails: s.notify <- err; close(s.notify); return
StartBindFail ==
    /\ startPc = "bind"
    /\ NotifyFatal("bind")
    /\ startPc' = "failed"
    /\ UNCHANGED <<cfgVars, listener, ctxDone, drainVars, readyCalls, loopVars, sessVars>>

StartBindOK ==
    /\ startPc = "bind"
    /\ CanListen(config, tlsConfig)
    /\ listener' = [kind |-> ListenerKind(config), state |-> "open"]
    /\ startPc' = "launch"
    /\ UNCHANGED <<cfgVars, ctxDone, drainVars, readyCalls, loopVars, sessVars, notifyVars>>

\* Faulty variant of StartLaunch: Start goes on to readyFunc without
\* having started the serve goroutine.
StartLaunchSkipped ==
    /\ startPc = "launch"
    /\ startPc' = "ready"
    /\ UNCHANGED <<cfgVars, listener, ctxDone, drainVars, readyCalls, loopVars, sessVars,
                   notifyVars>>

\* go s.serve(ctx)
StartLaunch ==
    /\ startPc = "launch"
    /\ servePc' = "accept"
    /\ startPc' = "ready"
    /\ UNCHANGED <<cfgVars, listener, ctxDone, drainVars, readyCalls, tempDelay, sessionID,
                   acceptErr, consecFails, totalFails, sessVars, notifyVars>>

\* readyFunc()
StartReady ==
    /\ startPc = "ready"
    /\ readyCalls' = readyCalls + 1
    /\ startPc' = "wait"
    /\ UNCHANGED <<cfgVars, listener, ctxDone, drainVars, loopVars, sessVars, notifyVars>>

\* Faulty variant of StartWait: Start does not wait for ctx.Done().
StartWaitNoBlock ==
    /\ startPc = "wait"
    /\ startPc' = "close"
    /\ UNCHANGED <<cfgVars, listener, ctxDone, drainVars, readyCalls, loopVars, sessVars,
                   notifyVars>>

\* <-ctx.Done()
StartWait ==
    /\ startPc = "wait"
    /\ ctxDone
    /\ startPc' = "close"
    /\ UNCHANGED <<cfgVars, listener, ctxDone, drainVars, readyCalls, loopVars, sessVars,
                   notifyVars>>

\* s.listener.Close(); a failure of Close is logged and nothing else.
StartClose ==
    /\ startPc = "close"
    /\ listener' = [listener EXCEPT !.state = "closed"]
    /\ startPc' = "returned"
    /\ UNCHANGED <<cfgVars, ctxDone, drainVars, readyCalls, loopVars, sessVars, notifyVars>>

(***************************************************************************)
(* Server.serve                                                            *)
(***************************************************************************)
\* Faulty variant of NextDelay: the doubled delay is not capped.
NextDelayNoCap(d) == IF d = 0 THEN InitialDelay ELSE d * 2

\* The delay after one more accept timeout.
NextDelay(d) ==
    LET doubled == IF d = 0 THEN InitialDelay ELSE d * 2
    IN  IF doubled > MaxDelay THEN MaxDelay ELSE doubled

\* Faulty variant of DelayAfterAccept: a successful accept keeps the delay.
DelayAfterAcceptKept(d) == d

\* The delay carried on after a successful accept: tempDelay = 0.
DelayAfterAccept(d) == 0

\* Faulty variant of NextSessionID: the loop's post statement is missing.
NextSessionIDSame(id) == id

\* The loop's post statement: sessionID++.
NextSessionID(id) == id + 1

\* Faulty variant of AcceptSuccess: serve goes on accepting after it has
\* reported a fatal error.
AcceptSuccessAfterFatal(maxS) ==
    /\ servePc \in {"accept", "fatal"}
    /\ listener.state = "open"
    /\ Len(dispatched) < maxS
    /\ servePc' = "gotconn"
    /\ acceptErr' = "nil"
    /\ UNCHANGED <<cfgVars, listener, ctxDone, drainVars, startVars, tempDelay, sessionID,
                   consecFails, totalFails, sessVars, notifyVars>>

\* s.listener.Accept() returns a connection (at most maxS in a run).
AcceptSuccess(maxS) ==
    /\ servePc = "accept"
    /\ listener.state = "open"
    /\ Len(dispatched) < maxS
    /\ servePc' = "gotconn"
    /\ acceptErr' = "nil"
    /\ UNCHANGED <<cfgVars, listener, ctxDone, drainVars, startVars, tempDelay, sessionID,
                   consecFails, totalFails, sessVars, notifyVars>>

\* Faulty variant of ServeDispatch: the session is counted twice (s.wg.Add(2)).
ServeDispatchAddsTwice ==
    /\ servePc = "gotconn"
    /\ tempDelay' = DelayAfterAccept(tempDelay)
    /\ expConnectsTotal' = expConnectsTotal + 1
    /\ wg' = wg + 2
    /\ dispatched' = Append(dispatched, sessionID)
    /\ active' = active \cup {sessionID}
    /\ sessionID' = NextSessionID(sessionID)
    /\ consecFails' = 0
    /\ lateDispatch' = lateDispatch + (IF listener.state = "closed" THEN 1 ELSE 0)
    /\ servePc' = "accept"
    /\ UNCHANGED <<cfgVars, listener, ctxDone, drainVars, startVars, acceptErr, totalFails,
                   decrements, notifyVars>>

\* Faulty variant of ServeDispatch: the handler is launched without s.wg.Add(1).
ServeDispatchNoAdd ==
    /\ servePc = "gotconn"
    /\ tempDelay' = DelayAfterAccept(tempDelay)
    /\ expConnectsTotal' = expConnectsTotal + 1
    /\ dispatched' = Append(dispatched, sessionID)
    /\ active' = active \cup {sessionID}
    /\ sessionID' = NextSessionID(sessionID)
    /\ consecFails' = 0
    /\ lateDispatch' = lateDispatch + (IF listener.state = "closed" THEN 1 ELSE 0)
    /\ servePc' = "accept"
    /\ UNCHANGED <<cfgVars, listener, ctxDone, drainVars, startVars, acceptErr, totalFails,
                   wg, decrements, notifyVars>>

\* The success branch: tempDelay = 0; expConnectsTotal.Add(1); s.wg.Add(1);
\* go s.startSession(sessionID, ...); then the loop's post statement sessionID++.
ServeDispatch ==
    /\ servePc = "gotconn"
    /\ tempDelay' = DelayAfterAccept(tempDelay)
    /\ expConnectsTotal' = expConnectsTotal + 1
    /\ wg' = wg + 1
    /\ dispatched' = Append(dispatched, sessionID)
    /\ active' = active \cup {sessionID}
    /\ sessionID' = NextSessionID(sessionID)
    /\ consecFails' = 0
    /\ lateDispatch' = lateDispatch + (IF listener.state = "closed" THEN 1 ELSE 0)
    /\ servePc' = "accept"
    /\ UNCHANGED <<cfgVars, listener, ctxDone, drainVars, startVars, acceptErr, totalFails,
                   decrements, notifyVars>>

\* Accept returns a net.Error whose Timeout() is true (at most maxF in a run):
\* the new tempDelay is computed and logged, and the goroutine sleeps.
AcceptTimeout(maxF) ==
    /\ servePc = "accept"
    /\ listener.state = "open"
    /\ totalFails < maxF
    /\ tempDelay' = NextDelay(tempDelay)
    /\ acceptErr' = "timeout"
    /\ consecFails' = consecFails + 1
    /\ totalFails' = totalFails + 1
    /\ servePc' = "sleep"
    /\ UNCHANGED <<cfgVars, listener, ctxDone, drainVars, startVars, sessionID, sessVars,
                   notifyVars>>

\* time.Sleep(tempDelay) returns; continue runs the loop's post statement
\* sessionID++ before the next Accept.
ServeWake ==
    /\ servePc = "sleep"
    /\ sessionID' = NextSessionID(sessionID)
    /\ servePc' = "accept"
    /\ UNCHANGED <<cfgVars, listener, ctxDone, drainVars, startVars, tempDelay, acceptErr,
                   consecFails, totalFails, sessVars, notifyVars>>

\* Accept returns an error that is no timeout: the listener is closed, or
\* the socket fails for another reason while it is open.
AcceptPermanent ==
    /\ servePc = "accept"
    /\ listener.state \in {"open", "closed"}
    /\ acceptErr' = IF listener.state = "closed" THEN "closed" ELSE "broken"
    /\ servePc' = "permerr"
    /\ UNCHANGED <<cfgVars, listener, ctxDone, drainVars, startVars, tempDelay, sessionID,
                   consecFails, totalFails, sessVars, notifyVars>>

\* Faulty variant of ServeSelect: ctx.Done() is not consulted, every
\* permanent error is reported.
ServeSelectIgnoresCtx ==
    /\ servePc = "permerr"
    /\ NotifyFatal(acceptErr)
    /\ servePc' = "fatal"
    /\ UNCHANGED <<cfgVars, listener, ctxDone, drainVars, startVars, tempDelay, sessionID,
                   acceptErr, consecFails, totalFails, sessVars>>

\* Faulty variant of ServeSelect: the silent exit closes the channel too.
ServeSelectClosing ==
    /\ servePc = "permerr"
    /\ IF ctxDone
       THEN /\ servePc' = "exited"
            /\ notify' = ChanClose(notify)
            /\ UNCHANGED <<sent, received>>
       ELSE /\ NotifyFatal(acceptErr)
            /\ servePc' = "fatal"
    /\ UNCHANGED <<cfgVars, listener, ctxDone, drainVars, startVars, tempDelay, sessionID,
                   acceptErr, consecFails, totalFails, sessVars>>

\* Faulty variant of ServeSelect: the fatal branch sends the error, then
\* neither closes the channel nor leaves the loop.
ServeSelectNoReturn ==
    /\ servePc = "permerr"
    /\ IF ctxDone
       THEN /\ servePc' = "exited"
            /\ UNCHANGED notifyVars
       ELSE /\ CanSend(notify)
            /\ notify' = ChanSend(notify, acceptErr)
            /\ sent' = Append(sent, acceptErr)
            /\ UNCHANGED received
            /\ servePc' = "accept"
    /\ UNCHANGED <<cfgVars, listener, ctxDone, drainVars, startVars, tempDelay, sessionID,
                   acceptErr, consecFails, totalFails, sessVars>>

\* select { case <-ctx.Done(): return; default: s.notify <- err; close; return }
ServeSelect ==
    /\ servePc = "permerr"
    /\ IF ctxDone
       THEN /\ servePc' = "exited"
            /\ UNCHANGED notifyVars
       ELSE /\ NotifyFatal(acceptErr)
            /\ servePc' = "fatal"
    /\ UNCHANGED <<cfgVars, listener, ctxDone, drainVars, startVars, tempDelay, sessionID,
                   acceptErr, consecFails, totalFails, sessVars>>

(***************************************************************************)
(* Server.Drain and Server.Notify                                          *)
(***************************************************************************)
\* A supervisor calls Drain on the constructed server.
DrainCall ==
    /\ drainPc = "idle"
    /\ startPc # "new"
    /\ drainPc' = "waiting"
    /\ drainEntry' = wg
    /\ drainAfterCancel' = ctxDone
    /\ UNCHANGED <<cfgVars, listener, ctxDone, startVars, loopVars, sessVars, notifyVars>>

\* Faulty variant of DrainReturn: Drain returns without waiting.
DrainReturnEarly ==
    /\ drainPc = "waiting"
    /\ drainPc' = "returned"
    /\ UNCHANGED <<drainEntry, drainAfterCancel, cfgVars, listener, ctxDone, startVars, loopVars, sessVars, notifyVars>>

\* s.wg.Wait() returns: the WaitGroup's counter is zero.
DrainReturn ==
    /\ drainPc = "waiting"
    /\ wg = 0
    /\ drainPc' = "returned"
    /\ UNCHANGED <<drainEntry, drainAfterCancel, cfgVars, listener, ctxDone, startVars, loopVars, sessVars, notifyVars>>

\* The supervisor receives a value from the channel Notify() returned.
NotifyRecv ==
    /\ Len(notify.buf) > 0
    /\ received' = Append(received, Head(notify.buf))
    /\ notify' = [notify EXCEPT !.buf = Tail(@)]
    /\ UNCHANGED <<cfgVars, listener, ctxDone, drainVars, startVars, loopVars, sessVars, sent>>

(***************************************************************************)
(* The environment                                                         *)
(***************************************************************************)
\* The handler of session id returns and counts itself out (s.wg.Done()).
SessionDone(id) ==
    /\ id \in active
    /\ active' = active \ {id}
    /\ wg' = wg - 1
    /\ decrements' = decrements + 1
    /\ UNCHANGED <<cfgVars, listener, ctxDone, drainVars, startVars, loopVars,
                   expConnectsTotal, dispatched, lateDispatch, notifyVars>>

\* The context handed to Start is cancelled.
Cancel ==
    /\ ~ctxDone
    /\ ctxDone' = TRUE
    /\ UNCHANGED <<cfgVars, listener, drainVars, startVars, loopVars, sessVars, notifyVars>>

Next ==
    \/ NewServer
    \/ StartResolveFail
    \/ StartResolveOK
    \/ StartBindFail
    \/ StartBindOK
    \/ StartLaunch
    \/ StartReady
    \/ StartWait
    \/ StartClose
    \/ AcceptSuccess(MaxSessions)
    \/ ServeDispatch
    \/ AcceptTimeout(MaxFails)
    \/ ServeWake
    \/ AcceptPermanent
    \/ ServeSelect
    \/ DrainCall
    \/ DrainReturn
    \/ NotifyRecv
    \/ \E id \in active : SessionDone(id)
    \/ Cancel

Spec == Init /\ [][Next]_vars

(***************************************************************************)
(* The accept loop alone: the state right after a successful startup       *)
(* (socket bound, serve launched, readyFunc called, Start blocked on       *)
(* ctx.Done()), from which only serve and the session handlers step.       *)
(***************************************************************************)
InitLoop ==
    /\ smtpConfig \in [TLSEnabled : BOOLEAN, ForceTLS : BOOLEAN]
    /\ certLoads \in BOOLEAN
    /\ (~smtpConfig.TLSEnabled => certLoads)
    /\ config = LoadedConfig(smtpConfig, certLoads)
    /\ tlsConfig = LoadedCert(smtpConfig, certLoads)
    /\ CanListen(config, tlsConfig)
    /\ listener = [kind |-> ListenerKind(config), state |-> "open"]
    /\ wg = 0
    /\ notify = [buf |-> <<>>, closed |-> FALSE]
    /\ ctxDone = FALSE
    /\ startPc = "wait"
    /\ servePc = "accept"
    /\ drainPc = "idle"
    /\ tempDelay = 0
    /\ sessionID = 1
    /\ acceptErr = "nil"
    /\ expConnectsTotal = 0
    /\ readyCalls = 1
    /\ dispatched = <<>>
    /\ active = {}
    /\ sent = <<>>
    /\ received = <<>>
    /\ consecFails = 0
    /\ totalFails = 0
    /\ lateDispatch = 0
    /\ drainEntry = -1
    /\ drainAfterCancel = FALSE
    /\ decrements = 0

NextLoop ==
    \/ AcceptSuccess(MaxLoopSessions)
    \/ ServeDispatch
    \/ AcceptTimeout(MaxLoopFails)
    \/ ServeWake
    \/ \E id \in active : SessionDone(id)

LoopSpec == InitLoop /\ [][NextLoop]_vars

(***************************************************************************)
(* The full lifecycle under fair scheduling.  The Go scheduler runs every  *)
(* goroutine that can step: Start after ctx.Done() is closed, serve once   *)
(* Accept has returned or its sleep is over, Accept on a closed listener   *)
(* (it fails at once), Wait once the counter is zero.  Each handler        *)
(* returns in the end (its contract).  Nothing obliges the network to      *)
(* deliver connections or errors, nor the context to be cancelled.         *)
(***************************************************************************)
NextLive ==
    \/ NewServer
    \/ StartResolveFail
    \/ StartResolveOK
    \/ StartBindFail
    \/ StartBindOK
    \/ StartLaunch
    \/ StartReady
    \/ StartWait
    \/ StartClose
    \/ AcceptSuccess(MaxLiveSessions)
    \/ ServeDispatch
    \/ AcceptTimeout(MaxLiveFails)
    \/ ServeWake
    \/ AcceptPermanent
    \/ ServeSelect
    \/ DrainCall
    \/ DrainReturn
    \/ NotifyRecv
    \/ \E id \in active : SessionDone(id)
    \/ Cancel

Fairness ==
    /\ WF_vars(StartWait)
    /\ WF_vars(StartClose)
    /\ WF_vars(ServeDispatch)
    /\ WF_vars(ServeWake)
    /\ WF_vars(AcceptPermanent /\ listener.state = "closed")
    /\ WF_vars(ServeSelect)
    /\ WF_vars(DrainReturn)
    /\ WF_vars(\E id \in active : SessionDone(id))

LiveSpec == Init /\ [][NextLive]_vars /\ Fairness

(***************************************************************************)
(* Properties                                                              *)
(***************************************************************************)
Min(a, b) == IF a < b THEN a ELSE b

RECURSIVE Pow2(_)
Pow2(n) == IF n = 0 THEN 1 ELSE 2 * Pow2(n - 1)

\* Start has returned and serve is not running.
RunOver ==
    /\ startPc \in {"failed", "returned"}
    /\ servePc \in {"notstarted", "exited", "fatal"}

\* The server was built from a TLS-enabled configuration whose key pair
\* failed to load.
TLSLoadFailed == startPc # "new" /\ smtpConfig.TLSEnabled /\ ~certLoads

\* C1: the k-th session dispatched carries the identifier k, whatever accept
\* timeouts came before it (identifiers 1, 2, 3, ... with no gaps).
C1_KthSessionHasIdK == \A k \in DOMAIN dispatched : dispatched[k] = k

\* C2: once Start has closed the listener, no session is dispatched: the
\* WaitGroup is not incremented and no handler is launched after the close.
C2_NoDispatchAfterClose == lateDispatch = 0

\* C3 as stated: on every run the notify channel ends up closed, so it is
\* closed whenever Start has returned and serve has ended.
C3_ClosedWhenRunOver == RunOver => notify.closed

\* C3 as amended: the notify channel is closed exactly on the two fatal
\* paths (Start failed to resolve or bind, serve met a permanent accept error
\* outside shutdown), holding the one error sent; after a silent exit of
\* serve on shutdown it is open.
C3_ClosedExactlyOnFatal ==
    /\ notify.closed <=> (startPc = "failed" \/ servePc = "fatal")
    /\ notify.closed => Len(sent) = 1
    /\ servePc = "exited" => ~notify.closed

C3_Witness == startPc = "returned" /\ servePc = "exited" /\ ~notify.closed

\* C4: at most one error is ever sent on the notify channel, and so at most
\* one is ever received from it.
C4_AtMostOneValue ==
    /\ Len(sent) <= 1
    /\ Len(received) + Len(notify.buf) = Len(sent)

C4_Witness == Len(sent) = 1 /\ Len(received) = 1 /\ servePc = "fatal"

C6_BackoffSchedule ==
    /\ tempDelay <= MaxDelay
    /\ tempDelay = IF consecFails = 0 THEN 0
                   ELSE Min(InitialDelay * Pow2(consecFails - 1), MaxDelay)
    /\ servePc = "sleep" => consecFails >= 1

C6_Witness == servePc = "sleep" /\ consecFails = 10 /\ tempDelay = MaxDelay

\* C7: a successful accept leaves the delay at zero, and the first accept
\* timeout after it sleeps exactly 5ms, whatever timeouts came before.
C7_ResetOnSuccess ==
    /\ (consecFails = 0 /\ Len(dispatched) > 0) => tempDelay = 0
    /\ (servePc = "sleep" /\ consecFails = 1) => tempDelay = InitialDelay

C7_Witness ==
    /\ servePc = "sleep"
    /\ consecFails = 1
    /\ totalFails = 3
    /\ Len(dispatched) >= 1
    /\ tempDelay = InitialDelay

\* C8: Drain returns only in a state where the WaitGroup's counter is zero
\* and no dispatched handler is still running; with the counter at zero a
\* waiting Drain can return at once.
C8_DrainReturnsAtZero ==
    [][/\ (drainPc = "waiting" /\ drainPc' = "returned") => (wg = 0 /\ active = {})
       /\ (drainPc = "waiting" /\ wg = 0) => ENABLED DrainReturn]_vars

C8_Witness ==
    /\ drainPc = "returned"
    /\ drainEntry = 3
    /\ ctxDone
    /\ active = {}

\* C9: when Start has failed to resolve or bind, readyFunc was never called,
\* serve was never started, no listener is held, and the notify channel is
\* closed after exactly one error, the startup error.
C9_StartupFailure ==
    startPc = "failed" =>
        /\ readyCalls = 0
        /\ servePc = "notstarted"
        /\ listener = NoListener
        /\ sent \in {<<"resolve">>, <<"bind">>}
        /\ notify.closed
        /\ Len(received) + Len(notify.buf) = 1

C9_Witness ==
    /\ startPc = "failed"
    /\ ~ctxDone
    /\ received = <<"bind">>
    /\ notify.closed

\* C10: readyFunc is called at most once; it has been called exactly when
\* Start is past its readyFunc call, and by then the listener is bound and
\* serve has been launched.
C10_ReadyOnceAfterLaunch ==
    /\ readyCalls = IF startPc \in {"wait", "close", "returned"} THEN 1 ELSE 0
    /\ readyCalls > 0 => (listener.state # "none" /\ servePc # "notstarted")

C10_Witness == readyCalls = 1 /\ startPc = "wait" /\ servePc = "accept"

\* serve has returned, silently or after a fatal error.
ServeTerminated == servePc \in {"exited", "fatal"}

\* C11: under fair scheduling and the handler contract, a Drain that is
\* waiting once the context is cancelled and the listener closed returns.
C11_DrainEventuallyReturns ==
    (drainPc = "waiting" /\ ctxDone /\ listener.state = "closed") ~> (drainPc = "returned")

C11_Witness ==
    /\ drainPc = "returned"
    /\ drainAfterCancel
    /\ drainEntry = 2
    /\ listener.state = "closed"
    /\ servePc = "exited"

\* C12: a permanent accept error met while ctx.Done() is closed ends serve
\* silently, and a serve that ended silently has sent nothing on notify.
C12_SilentExit ==
    [][/\ (servePc = "permerr" /\ ctxDone /\ servePc' # "permerr") =>
              (servePc' = "exited" /\ UNCHANGED <<notify, sent, received>>)
       /\ servePc' = "exited" => (sent' = <<>> /\ received' = <<>>)]_vars

C12_Witness ==
    /\ servePc = "exited"
    /\ acceptErr = "closed"
    /\ Len(dispatched) >= 1
    /\ sent = <<>>

\* C13: a permanent accept error met while ctx.Done() is open is sent on
\* notify, notify is closed and serve ends; from then on serve stays ended,
\* no session is dispatched and the WaitGroup is not incremented.
C13_FatalTerminates ==
    [][/\ (servePc = "permerr" /\ ~ctxDone /\ servePc' # "permerr") =>
              (servePc' = "fatal" /\ sent' = Append(sent, acceptErr) /\ notify'.closed)
       /\ servePc = "fatal" =>
              (servePc' = "fatal" /\ dispatched' = dispatched /\ wg' <= wg)]_vars

C13_Witness ==
    /\ servePc = "fatal"
    /\ sent = <<"broken">>
    /\ notify.closed
    /\ Len(dispatched) >= 1
    /\ listener.state = "open"

\* C14: whenever Start or serve is about to send on notify the channel is
\* open with a free slot, and the two producers exclude each other: serve
\* never runs in a run whose Start has reported a startup error.
C14_ProducersExclusive ==
    /\ startPc \in {"init", "bind"} => CanSend(notify)
    /\ servePc = "permerr" => CanSend(notify)
    /\ servePc # "notstarted" =>
           (startPc # "failed" /\ \A i \in DOMAIN sent : sent[i] \notin {"resolve", "bind"})

C14_Witness == sent = <<"broken">> /\ startPc = "returned" /\ received = <<"broken">>

\* C15: of two sessions dispatched, the later one carries the strictly
\* larger identifier.
C15_IdsStrictlyIncreasing ==
    \A i, j \in DOMAIN dispatched : i < j => dispatched[i] < dispatched[j]

C15_Witness == dispatched = <<2, 4>>

\* C16: once serve has returned, by either path, it stays returned and the
\* WaitGroup is never incremented again.
C16_NoIncrementAfterTermination ==
    [][ServeTerminated =>
           (servePc' = servePc /\ wg' <= wg /\ dispatched' = dispatched)]_vars

C16_Witness ==
    /\ ServeTerminated
    /\ Len(dispatched) = 2
    /\ decrements = 2
    /\ wg = 0

\* C17: after a successful startup Start returns only once ctx.Done() is
\* closed; the listener is closed only by Start's shutdown step, from open,
\* so once; after a fatal accept error and before cancellation the listener
\* is open and Start has not gone past waiting.
C17_OnlyStartCloses ==
    [][/\ (startPc' = "returned" /\ startPc # "returned") =>
              (ctxDone /\ listener.state = "open" /\ listener'.state = "closed")
       /\ listener' # listener =>
              (startPc \in {"bind", "close"} /\ servePc' = servePc)
       /\ (listener.state = "open" /\ listener'.state = "closed") => startPc = "close"
       /\ listener.state = "closed" => listener' = listener
       /\ (servePc = "fatal" /\ ~ctxDone) =>
              (listener.state = "open" /\ startPc \in {"ready", "wait"})]_vars

C17_Witness ==
    /\ servePc = "fatal"
    /\ ~ctxDone
    /\ startPc = "wait"
    /\ listener.state = "open"
    /\ received = <<"broken">>

\* C18: handling an accept timeout (the step into the sleep and the step
\* back to Accept) changes nothing but the backoff: the WaitGroup, the
\* metric, the sessions dispatched, the notify channel and the session
\* counter are as before.
C18_TimeoutChangesOnlyBackoff ==
    [][((servePc = "accept" /\ servePc' = "sleep") \/ (servePc = "sleep" /\ servePc' = "accept")) =>
           UNCHANGED <<wg, expConnectsTotal, dispatched, active, notify, sent, sessionID>>]_vars

\* C19: the WaitGroup's counter is the number of sessions dispatched minus
\* the number of handlers that have counted themselves out, is the number of
\* handlers running, is never negative, and the metric counts the sessions
\* dispatched.
C19_TrackerCount ==
    /\ wg = Len(dispatched) - decrements
    /\ wg = Cardinality(active)
    /\ wg >= 0
    /\ expConnectsTotal = Len(dispatched)

C19_Witness == wg = 1 /\ Len(dispatched) = 3 /\ decrements = 2

\* C20: once a Drain called after the cancellation has returned, the
\* WaitGroup's counter is zero and stays zero.
C20_DrainedStaysZero == (drainPc = "returned" /\ drainAfterCancel) => wg = 0

====
